---- MODULE Spec2Model ----
(***************************************************************************)
(* Model of src/app.py, the password-gated Streamlit dashboard over the    *)
(* Uber trip table.  The script is re-executed top to bottom on every      *)
(* interaction (Render); the password widget's on_change callback          *)
(* (PasswordEntered) runs before the re-execution it triggers.             *)
(*                                                                         *)
(* Two specifications:                                                     *)
(*   Spec          the application: session, secrets, file on disk,        *)
(*                 st.cache_data entry of load_parquet_data, clock         *)
(*   SpecPipeline  the date filter and the daily resample applied to       *)
(*                 every table of a bounded universe                       *)
(***************************************************************************)
EXTENDS Integers, Sequences, FiniteSets, TLC

VARIABLES
    secrets,        \* st.secrets: a mapping that may or may not hold "password"
    session_state,  \* st.session_state: a mapping key -> value
    rerun_pending,  \* a callback has run and the script re-execution it triggers has not
    comparison,     \* history: the last comparison made by password_entered
    disk,           \* what is stored at data/Uber_cleaned_data.parquet
    cache,          \* the st.cache_data entry of load_parquet_data for file_path
    clock,          \* seconds since the process started
    reads,          \* history: executions of pd.read_parquet(file_path) in load_parquet_data
    load_log,       \* history: the last two calls of load_parquet_data
    run,            \* what the last execution of the script did
    df,             \* pipeline: the table under test
    date_range,     \* pipeline: the selected (start_date, end_date)
    filtered_df,    \* pipeline: the result of the filter
    daily_trips,    \* pipeline: the result of the resample
    step            \* pipeline: position in load -> select -> filter -> aggregate

vars == <<secrets, session_state, rerun_pending, comparison, disk, cache, clock,
          reads, load_log, run, df, date_range, filtered_df, daily_trips, step>>

appVars == <<secrets, session_state, rerun_pending, comparison, disk, cache, clock,
             reads, load_log, run>>

pipeVars == <<df, date_range, filtered_df, daily_trips, step>>

----------------------------------------------------------------------------
(* Bounds *)

MaxRows == 3
\* rows of a table of the pipeline universe

MaxDay == 2
\* calendar dates are 0 .. MaxDay

TicksPerDay == 2
\* instants of a day that a pickup_datetime can take

MaxTicks == 2
\* advances of the clock

TickSeconds == 2000
\* seconds per advance of the clock

MaxReads == 3
\* cap of the read counter

(* Program constant: @st.cache_data(ttl=3600) *)
ttl == 3600

MaxClock == MaxTicks * TickSeconds

----------------------------------------------------------------------------
(* Time: a pickup_datetime is an integer instant, TicksPerDay instants a day *)

Dates == 0 .. MaxDay

Datetimes == 0 .. ((MaxDay + 1) * TicksPerDay - 1)

\* Timestamp.date() / Series.dt.date
DateOf(ts) == ts \div TicksPerDay

\* a date compared as a timestamp is its midnight
Midnight(d) == d * TicksPerDay

SetMin(S) == CHOOSE x \in S : \A y \in S : x <= y

SetMax(S) == CHOOSE x \in S : \A y \in S : x >= y

Range(s) == {s[i] : i \in DOMAIN s}

----------------------------------------------------------------------------
(* Mappings (st.session_state, st.secrets) *)

NoKeys == [k \in {} |-> FALSE]

Put(m, k, v) == [x \in (DOMAIN m) \cup {k} |-> IF x = k THEN v ELSE m[x]]

Del(m, k) == [x \in (DOMAIN m) \ {k} |-> m[x]]

Secret == "s3cret"

Credentials == {Secret, "guess", ""}

----------------------------------------------------------------------------
(* Tables.  A table is its pickup_datetime column, in file order, and       *)
(* whether the four required columns are all present.                       *)

Table(required, pickups) == [required |-> required, pickup_datetime |-> pickups]

NoTable == Table(FALSE, <<>>)

RECURSIVE SeqsUpTo(_, _)
SeqsUpTo(S, n) ==
    IF n = 0 THEN {<<>>}
    ELSE LET shorter == SeqsUpTo(S, n - 1)
         IN  shorter \cup {Append(s, x) : s \in {t \in shorter : Len(t) = n - 1}, x \in S}

\* the tables of the pipeline universe
Tables == {Table(TRUE, s) : s \in SeqsUpTo(Datetimes, MaxRows)}

\* the files the application is run on: a table with a gap date, a one-day
\* table, an empty table, a table that lacks a required column
SampleFiles ==
    { Table(TRUE, <<Midnight(MaxDay), 1>>),
      Table(TRUE, <<Midnight(1)>>),
      Table(TRUE, <<>>),
      Table(FALSE, <<0>>) }

\* df["pickup_datetime"].min().date()
min_date(t) == DateOf(SetMin(Range(t.pickup_datetime)))

\* df["pickup_datetime"].max().date()
max_date(t) == DateOf(SetMax(Range(t.pickup_datetime)))

----------------------------------------------------------------------------
(* The date-range filter: filter_data, and the same mask inline            *)

\* a plausible slip: the end date compared as a timestamp (its midnight)
\* instead of as a calendar date
mask_end_as_timestamp(ts, start_date, end_date) ==
    DateOf(ts) >= start_date /\ ts <= Midnight(end_date)

\* (pickup_datetime.dt.date >= start_date) & (pickup_datetime.dt.date <= end_date)
mask(ts, start_date, end_date) ==
    DateOf(ts) >= start_date /\ DateOf(ts) <= end_date

\* df[mask]: the rows where the mask is True, in the order of df
filter_data(t, start_date, end_date) ==
    LET keep(ts) == mask(ts, start_date, end_date)
    IN  Table(t.required, SelectSeq(t.pickup_datetime, keep))

----------------------------------------------------------------------------
(* The daily resample: df.resample('D', on='pickup_datetime').size()       *)

\* the start of the day bin an instant falls in
DayBin(ts) == ts - (ts % TicksPerDay)

\* rows of the bin [edge, edge + 1 day)
BinSize(pickups, edge) ==
    Cardinality({i \in DOMAIN pickups :
                    edge <= pickups[i] /\ pickups[i] < edge + TicksPerDay})

RECURSIVE Bins(_, _, _)
Bins(pickups, edge, last) ==
    IF edge > last THEN <<>>
    ELSE LET bin == [label |-> edge, size |-> BinSize(pickups, edge)]
         IN  <<bin>> \o Bins(pickups, edge + TicksPerDay, last)

\* a plausible slip: a group-by of the observed days, which has no entry for
\* a day without rows
aggregate_sparse(t) ==
    LET p == t.pickup_datetime
        all == IF p = <<>> THEN <<>>
               ELSE Bins(p, DayBin(SetMin(Range(p))), DayBin(SetMax(Range(p))))
        seen(b) == b.size > 0
    IN  SelectSeq(all, seen)

\* one entry per day bin from the first row's day to the last row's day,
\* labelled by the bin's start, holding the bin's row count
aggregate_daily_trips(t) ==
    LET p == t.pickup_datetime
    IN  IF p = <<>> THEN <<>>
        ELSE Bins(p, DayBin(SetMin(Range(p))), DayBin(SetMax(Range(p))))

----------------------------------------------------------------------------
(* The file at file_path, uploads, and the value a load returns            *)

File(kind, t) == [kind |-> kind, table |-> t]

\* os.path.exists(file_path) is False / pd.read_parquet raises / it parses
DiskStates ==
    {File("missing", NoTable), File("corrupt", NoTable)}
        \cup {File("parquet", t) : t \in SampleFiles}

\* st.file_uploader: None, a file pd.read_parquet raises on, a parquet file
Uploads ==
    {File("none", NoTable), File("corrupt", NoTable)}
        \cup {File("parquet", t) : t \in SampleFiles}

\* a DataFrame, or None
Loaded(ok, t) == [ok |-> ok, table |-> t]

None == Loaded(FALSE, NoTable)

NoEntry == [present |-> FALSE, value |-> None, stored_at |-> 0]

\* st.sidebar.date_input as the user left it: untouched (<<>>), one endpoint
\* picked, or both
UserDates ==
    {<<>>} \cup {<<a>> : a \in Dates}
           \cup {p \in Dates \X Dates : p[1] <= p[2]}

----------------------------------------------------------------------------
(* check_password and its callback                                         *)

\* a plausible slip: an unconfigured secret lets everyone in
check_password_open(ss, sec) ==
    IF "password" \notin DOMAIN sec
    THEN [ret |-> TRUE, emitted |-> {}]
    ELSE IF "password_correct" \notin DOMAIN ss
         THEN [ret |-> FALSE, emitted |-> {"text_input: Password"}]
         ELSE [ret |-> ss["password_correct"], emitted |-> {}]

\* a plausible slip: the password input is rendered on every run
check_password_input_always(ss, sec) ==
    IF "password" \notin DOMAIN sec
    THEN [ret |-> FALSE, emitted |-> {"error: Password not configured"}]
    ELSE IF "password_correct" \notin DOMAIN ss
         THEN [ret |-> FALSE, emitted |-> {"text_input: Password"}]
         ELSE [ret |-> ss["password_correct"], emitted |-> {"text_input: Password"}]

check_password(ss, sec) ==
    IF "password" \notin DOMAIN sec
    THEN [ret |-> FALSE, emitted |-> {"error: Password not configured"}]
    ELSE IF "password_correct" \notin DOMAIN ss
         THEN [ret |-> FALSE, emitted |-> {"text_input: Password"}]
         ELSE [ret |-> ss["password_correct"], emitted |-> {}]

password_entered(ss, sec) ==
    IF "password" \in DOMAIN ss
    THEN IF ss["password"] = sec["password"]
         THEN Del(Put(ss, "password_correct", TRUE), "password")
         ELSE Put(ss, "password_correct", FALSE)
    ELSE ss

----------------------------------------------------------------------------
(* Loading                                                                 *)

\* a plausible slip: the loader without its cache decorator
load_parquet_data_uncached(c, d, now) ==
    LET v == IF d.kind = "parquet" THEN Loaded(TRUE, d.table) ELSE None
    IN  [value |-> v, read |-> TRUE,
         cache |-> [present |-> TRUE, value |-> v, stored_at |-> now]]

\* @st.cache_data (no ttl): the stored value when there is one, else
\* pd.read_parquet(file_path), None when it raises; the result is stored
load_parquet_data(c, d, now) ==
    IF c.present
    THEN [value |-> c.value, read |-> FALSE, cache |-> c]
    ELSE LET v == IF d.kind = "parquet" THEN Loaded(TRUE, d.table) ELSE None
         IN  [value |-> v, read |-> TRUE,
              cache |-> [present |-> TRUE, value |-> v, stored_at |-> now]]

\* a plausible slip: a missing file halts the run with no uploader
load_branch_no_fallback(d, c, now, uploaded) ==
    IF d.kind = "missing"
    THEN [emitted |-> {"error: Data file not found"}, halt |-> "stop",
          value |-> None, source |-> "none", called |-> FALSE, read |-> FALSE,
          cache |-> c, age |-> 0]
    ELSE LET r == load_parquet_data(c, d, now)
         IN  [emitted |-> IF r.value.ok THEN {}
                          ELSE {"error: Error reading parquet file"},
              halt |-> "none", value |-> r.value,
              source |-> IF r.read THEN "read" ELSE "cache",
              called |-> TRUE, read |-> r.read, cache |-> r.cache,
              age |-> now - r.cache.stored_at]

\* the if/else on os.path.exists(file_path)
load_branch(d, c, now, uploaded) ==
    IF d.kind = "missing"
    THEN [emitted |-> {"error: Data file not found", "file_uploader"},
          halt |-> IF uploaded.kind = "none" THEN "stop"
                   ELSE IF uploaded.kind = "corrupt" THEN "raise" ELSE "none",
          value |-> IF uploaded.kind = "parquet"
                    THEN Loaded(TRUE, uploaded.table) ELSE None,
          source |-> IF uploaded.kind = "parquet" THEN "upload" ELSE "none",
          called |-> FALSE, read |-> FALSE, cache |-> c, age |-> 0]
    ELSE LET r == load_parquet_data(c, d, now)
         IN  [emitted |-> IF r.value.ok THEN {}
                          ELSE {"error: Error reading parquet file"},
              halt |-> "none", value |-> r.value,
              source |-> IF r.read THEN "read" ELSE "cache",
              called |-> TRUE, read |-> r.read, cache |-> r.cache,
              age |-> now - r.cache.stored_at]

----------------------------------------------------------------------------
(* The dashboard body, once a DataFrame is loaded                          *)

Shown(emitted, halt, dr, f, d) ==
    [emitted |-> emitted, halt |-> halt, date_range |-> dr,
     filtered_df |-> f, daily_trips |-> d]

\* st.sidebar.date_input(value=(min_date, max_date), min_value, max_value):
\* the default until the user picks; a value outside the limits is rejected
date_input(lo, hi, user) ==
    IF user = <<>> THEN [raises |-> FALSE, value |-> <<lo, hi>>]
    ELSE [raises |-> \E i \in DOMAIN user : user[i] < lo \/ user[i] > hi,
          value |-> user]

\* metrics, then the two charts or the no-data notice
display(t, dr) ==
    LET filtered == filter_data(t, dr[1], dr[2])
        metrics == {"sidebar: Filters", "date_input", "metric: Total Trips",
                    "metric: Avg Distance", "metric: Avg Fare",
                    "metric: Total Revenue"}
    IN  IF filtered.pickup_datetime # <<>>
        THEN Shown(metrics \cup {"plotly_chart: histogram", "plotly_chart: line"},
                   "none", dr, filtered, aggregate_daily_trips(filtered))
        ELSE Shown(metrics \cup {"warning: No data available"},
                   "none", dr, filtered, <<>>)

\* validation, date limits, date selection, filter, metrics, charts.
\* nat_raises: whether the NaT limits of an empty table make date_input raise
dashboard(t, user, nat_raises) ==
    IF ~t.required
    THEN Shown({"error: Missing required columns"}, "stop", <<>>, NoTable, <<>>)
    ELSE IF t.pickup_datetime = <<>>
    THEN IF nat_raises
         THEN Shown({"sidebar: Filters"}, "raise", <<>>, NoTable, <<>>)
         ELSE Shown({"sidebar: Filters", "date_input", "metric: Total Trips",
                     "metric: Avg Distance", "metric: Avg Fare",
                     "metric: Total Revenue", "warning: No data available"},
                    "none", <<>>, t, <<>>)
    ELSE LET picked == date_input(min_date(t), max_date(t), user)
         IN  IF picked.raises
             THEN Shown({"sidebar: Filters"}, "raise", <<>>, NoTable, <<>>)
             ELSE IF Len(picked.value) < 2
             THEN Shown({"sidebar: Filters", "date_input"}, "raise",
                        picked.value, NoTable, <<>>)
             ELSE display(t, picked.value)

\* except Exception as e: the message, two debug lines, then sys.version with
\* sys never imported: NameError leaves the handler
except_handler(emitted) ==
    [emitted |-> emitted \cup {"error: An error occurred", "write: Debug info",
                               "write: Current directory"},
     outcome |-> "NameError"]

\* the try block: load, then the dashboard or the load failure
main(d, c, now, uploaded, user, nat_raises) ==
    LET l == load_branch(d, c, now, uploaded)
        title == {"title: Uber Trip Analysis"}
        b == IF l.halt # "none"
             THEN Shown({}, l.halt, <<>>, NoTable, <<>>)
             ELSE IF l.value.ok
             THEN LET s == dashboard(l.value.table, user, nat_raises)
                  IN  [s EXCEPT !.emitted = @ \cup {"success: Data loaded"}]
             ELSE Shown({"error: Failed to load data"}, "stop", <<>>, NoTable, <<>>)
        shown == title \cup l.emitted \cup b.emitted
        end == IF b.halt = "raise" THEN except_handler(shown)
               ELSE [emitted |-> shown,
                     outcome |-> IF b.halt = "stop" THEN "stopped" ELSE "completed"]
    IN  [load |-> l, body |-> b, emitted |-> end.emitted, outcome |-> end.outcome,
         data_loaded |-> l.halt = "none" /\ l.value.ok]

----------------------------------------------------------------------------
(* The application                                                         *)

NoComparison == [made |-> FALSE, supplied |-> "", matched |-> FALSE]

NoRun ==
    [outcome |-> "none", emitted |-> {}, authorized |-> FALSE,
     file_exists |-> FALSE, uploaded |-> "none", source |-> "none",
     load_ok |-> FALSE, served_age |-> 0, date_range |-> <<>>,
     filtered_df |-> NoTable, daily_trips |-> <<>>]

PipelineIdle ==
    /\ df = NoTable
    /\ date_range = <<>>
    /\ filtered_df = NoTable
    /\ daily_trips = <<>>
    /\ step = "idle"

Init ==
    /\ secrets \in {NoKeys, [password |-> Secret]}
    /\ session_state = NoKeys
    /\ rerun_pending = FALSE
    /\ comparison = NoComparison
    /\ disk \in DiskStates
    /\ cache = NoEntry
    /\ clock = 0
    /\ reads = 0
    /\ load_log = <<>>
    /\ run = NoRun
    /\ PipelineIdle

\* the last two entries of the log of loads
Logged(log, entry) ==
    IF log = <<>> THEN <<entry>> ELSE <<log[Len(log)], entry>>

\* a widget holds a value of the user's only if the last run rendered it
\* (the uploader's value is read only when the file is missing)
UploadChoices ==
    IF "file_uploader" \in run.emitted /\ disk.kind = "missing"
    THEN Uploads ELSE {File("none", NoTable)}

DateChoices ==
    IF "date_input" \in run.emitted THEN UserDates ELSE {<<>>}

\* One execution of the script, top to bottom.
Render ==
    /\ reads < MaxReads
    /\ \E uploaded \in UploadChoices, user \in DateChoices,
          nat_raises \in BOOLEAN :
        /\ LET ss0 == IF "data_loaded" \in DOMAIN session_state THEN session_state
                      ELSE Put(session_state, "data_loaded", FALSE)
               gate == check_password(ss0, secrets)
               m == main(disk, cache, clock, uploaded, user, nat_raises)
           IN  IF gate.ret
               THEN /\ nat_raises =>
                          /\ m.data_loaded
                          /\ m.load.value.table.required
                          /\ m.load.value.table.pickup_datetime = <<>>
                    /\ session_state' = IF m.data_loaded
                                        THEN Put(ss0, "data_loaded", TRUE) ELSE ss0
                    /\ cache' = m.load.cache
                    /\ reads' = IF m.load.read THEN reads + 1 ELSE reads
                    /\ load_log' = IF m.load.called
                                   THEN Logged(load_log,
                                               [at |-> clock, value |-> m.load.value,
                                                read |-> m.load.read])
                                   ELSE load_log
                    /\ run' = [outcome |-> m.outcome,
                               emitted |-> gate.emitted \cup m.emitted,
                               authorized |-> TRUE,
                               file_exists |-> disk.kind # "missing",
                               uploaded |-> uploaded.kind,
                               source |-> m.load.source,
                               load_ok |-> m.load.value.ok,
                               served_age |-> m.load.age,
                               date_range |-> m.body.date_range,
                               filtered_df |-> m.body.filtered_df,
                               daily_trips |-> m.body.daily_trips]
               ELSE /\ ~nat_raises
                    /\ session_state' = ss0
                    /\ run' = [NoRun EXCEPT
                                 !.outcome = "completed",
                                 !.emitted = gate.emitted \cup
                                     {"warning: Please enter the correct password"}]
                    /\ UNCHANGED <<cache, reads, load_log>>
    /\ rerun_pending' = FALSE
    /\ UNCHANGED <<secrets, comparison, disk, clock>>
    /\ UNCHANGED pipeVars

\* The user submits the password input: the widget's value is written to
\* session_state["password"], then on_change=password_entered runs.
PasswordEntered ==
    /\ ~rerun_pending
    /\ "text_input: Password" \in run.emitted
    /\ \E typed \in Credentials :
        LET ss == Put(session_state, "password", typed)
        IN  /\ session_state' = password_entered(ss, secrets)
            /\ comparison' = [made |-> TRUE, supplied |-> typed,
                              matched |-> typed = secrets["password"]]
    /\ rerun_pending' = TRUE
    /\ UNCHANGED <<secrets, disk, cache, clock, reads, load_log, run>>
    /\ UNCHANGED pipeVars

\* Time passes.
Tick ==
    /\ clock + TickSeconds <= MaxClock
    /\ clock' = clock + TickSeconds
    /\ UNCHANGED <<secrets, session_state, rerun_pending, comparison, disk, cache,
                   reads, load_log, run>>
    /\ UNCHANGED pipeVars

\* The file at file_path is replaced, removed or damaged.
FileChange ==
    /\ disk' \in DiskStates \ {disk}
    /\ UNCHANGED <<secrets, session_state, rerun_pending, comparison, cache, clock,
                   reads, load_log, run>>
    /\ UNCHANGED pipeVars

Next == Render \/ PasswordEntered \/ Tick \/ FileChange

Spec == Init /\ [][Next]_vars

----------------------------------------------------------------------------
(* The pipeline on its own: every table of the bounded universe, every     *)
(* date interval within its span                                           *)

InitPipeline ==
    /\ secrets = [password |-> Secret]
    /\ session_state = NoKeys
    /\ rerun_pending = FALSE
    /\ comparison = NoComparison
    /\ disk = File("missing", NoTable)
    /\ cache = NoEntry
    /\ clock = 0
    /\ reads = 0
    /\ load_log = <<>>
    /\ run = NoRun
    /\ df \in Tables
    /\ date_range = <<>>
    /\ filtered_df = NoTable
    /\ daily_trips = <<>>
    /\ step = "loaded"

\* date_input returns a (start_date, end_date) within [min_date, max_date]
SelectDates ==
    /\ step = "loaded"
    /\ df.pickup_datetime # <<>>
    /\ \E a \in Dates, b \in Dates :
        /\ min_date(df) <= a /\ a <= b /\ b <= max_date(df)
        /\ date_range' = <<a, b>>
    /\ step' = "selected"
    /\ UNCHANGED <<df, filtered_df, daily_trips>>
    /\ UNCHANGED appVars

\* filtered_df = df[mask].copy()
Filter ==
    /\ step = "selected"
    /\ filtered_df' = filter_data(df, date_range[1], date_range[2])
    /\ step' = "filtered"
    /\ UNCHANGED <<df, date_range, daily_trips>>
    /\ UNCHANGED appVars

\* if not filtered_df.empty: daily_trips = filtered_df.resample(...).size()
Aggregate ==
    /\ step = "filtered"
    /\ filtered_df.pickup_datetime # <<>>
    /\ daily_trips' = aggregate_daily_trips(filtered_df)
    /\ step' = "aggregated"
    /\ UNCHANGED <<df, date_range, filtered_df>>
    /\ UNCHANGED appVars

NextPipeline == SelectDates \/ Filter \/ Aggregate

SpecPipeline == InitPipeline /\ [][NextPipeline]_vars

----------------------------------------------------------------------------
(* Properties                                                              *)

Configured == "password" \in DOMAIN secrets

\* st.session_state["password_correct"] is True
Authorized ==
    IF "password_correct" \in DOMAIN session_state
    THEN session_state["password_correct"] ELSE FALSE

Rendered == run.outcome # "none"

GateElements ==
    {"error: Password not configured", "text_input: Password",
     "warning: Please enter the correct password"}

\* C1: with a secret configured, every run of the script that ends without
\* the session being Authorized offers the password input (so that a wrong
\* credential can be followed by the correct one, which then authorizes).
C1_RetryOffered ==
    (Configured /\ Rendered /\ ~rerun_pending /\ ~Authorized)
        => "text_input: Password" \in run.emitted

\* C2: after every comparison made by password_entered, matched or not,
\* session_state holds no "password" entry.
C2_CredentialDiscarded ==
    comparison.made => "password" \notin DOMAIN session_state

\* C3: the dashboard body (title, load, metrics, charts) is run only with
\* password_correct True; password_correct is True only after a comparison
\* whose supplied credential equals the configured secret; with no secret
\* configured every run shows the configuration error and nothing but the
\* gate's warning, and no comparison is ever made.
C3_NoBypass ==
    /\ (run.authorized \/ run.emitted \ GateElements # {} \/ run.source # "none")
          => Authorized
    /\ (cache.present \/ reads > 0) => Authorized
    /\ Authorized =>
          /\ Configured
          /\ comparison.made
          /\ comparison.supplied = secrets["password"]
    /\ ~Configured =>
          /\ ~comparison.made
          /\ Rendered => run.emitted = {"error: Password not configured",
                                        "warning: Please enter the correct password"}

C3_DashboardReached ==
    /\ Authorized
    /\ "plotly_chart: line" \in run.emitted
    /\ "metric: Total Trips" \in run.emitted

\* C4: once password_correct is True it is True after every later step of
\* the session.
C4_AuthorizedAbsorbing == [][Authorized => Authorized']_vars

C4_AuthorizedRerendered ==
    /\ Authorized
    /\ run.authorized
    /\ clock > 0
    /\ run.source = "cache"

\* C5: no exception leaves the controller's error handler: a run of the
\* script never ends in an uncaught exception.
C5_NoEscape == run.outcome # "NameError"

C7_LoadIdempotent ==
    (Len(load_log) = 2 /\ load_log[2].at - load_log[1].at <= ttl)
        => /\ load_log[2].value = load_log[1].value
           /\ ~load_log[2].read

C7_SecondLoadOfChangedFile ==
    /\ Len(load_log) = 2
    /\ load_log[2].at - load_log[1].at <= ttl
    /\ load_log[2].at > load_log[1].at
    /\ load_log[1].read
    /\ load_log[2].value.ok
    /\ disk.kind = "parquet"
    /\ disk.table # load_log[2].value.table

\* C8: a load is never answered from a cache entry older than the TTL (such
\* an entry is stale and the file is read again).
C8_StaleEntryReread ==
    run.source = "cache" => run.served_age <= ttl

----------------------------------------------------------------------------

InRange(ts, dr) == dr[1] <= DateOf(ts) /\ DateOf(ts) <= dr[2]

RECURSIVE IsSubSeq(_, _)
IsSubSeq(a, b) ==
    IF a = <<>> THEN TRUE
    ELSE IF b = <<>> THEN FALSE
    ELSE IF Head(a) = Head(b) THEN IsSubSeq(Tail(a), Tail(b))
    ELSE IsSubSeq(a, Tail(b))

FilterExact ==
    LET rows == df.pickup_datetime
        out == filtered_df.pickup_datetime
    IN  /\ \A i \in DOMAIN out : InRange(out[i], date_range)
        /\ IsSubSeq(out, rows)
        /\ Len(out) = Cardinality({i \in DOMAIN rows : InRange(rows[i], date_range)})
        /\ Len(out) <= Len(rows)
        /\ date_range = <<min_date(df), max_date(df)>> => Len(out) = Len(rows)

RECURSIVE SumSizes(_)
SumSizes(series) ==
    IF series = <<>> THEN 0 ELSE Head(series).size + SumSizes(Tail(series))

\* C10: for every non-empty table the daily series holds every date d of
\* [min_date, max_date] exactly once, with a count >= 0 that is the number
\* of rows picked up on d, and the counts sum to the table's row count.
C10_DailyDense ==
    step = "aggregated" =>
        LET rows == filtered_df.pickup_datetime
        IN  /\ \A d \in min_date(filtered_df) .. max_date(filtered_df) :
                  LET at == {k \in DOMAIN daily_trips : DateOf(daily_trips[k].label) = d}
                  IN  /\ Cardinality(at) = 1
                      /\ \A k \in at :
                            /\ daily_trips[k].size >= 0
                            /\ daily_trips[k].size =
                                  Cardinality({i \in DOMAIN rows : DateOf(rows[i]) = d})
            /\ SumSizes(daily_trips) = Len(rows)

C10_GapDate ==
    /\ step = "aggregated"
    /\ \E k \in DOMAIN daily_trips : daily_trips[k].size = 0
    /\ \E k \in DOMAIN daily_trips : daily_trips[k].size > 1

====
